---------------------------- MODULE Spec2Model ----------------------------
(***************************************************************************)
(* A model of the enlearn vocabulary tracker (src/vocab/__init__.py and    *)
(* its callers): the entry schema and normalizer, the due-entry selector,  *)
(* the display sort and the review-outcome update; and of the store        *)
(* (load, save) with the request handlers of src/app/app.py running in two *)
(* sessions on one storage file.                                           *)
(*                                                                         *)
(* Records are the loosely typed JSON objects the store reads: every field *)
(* of a record holds a tagged value, absent (the key is not in the dict),  *)
(* null, an integer or a string.  Strings are sequences of character       *)
(* codes, so that parsing, formatting and lexical comparison are computed. *)
(* Calendar dates are proleptic Gregorian ordinals, as date.toordinal().   *)
(***************************************************************************)
EXTENDS Integers, Sequences, FiniteSets, TLC

VARIABLES
    entries,    \* the in-memory collection: a sequence of records
    prev,       \* the collection as it was before the last call
    today,      \* the calendar date (ordinal) the last call ran on
    result,     \* what the last call returned (or that it raised)
    history,    \* the outcomes of the calls made so far, oldest first
    origin,     \* where the input came from: "created", "repaired", "stored"
    issued,     \* how many uuids uuid4() has handed out
    fs,         \* the storage directory: the primary file and its .tmp sibling
    sess,       \* each session's position in the request it is serving
    last,       \* the save begun most recently: the file before it, its text
    overlap,    \* whether two saves have ever been in progress at once
    started     \* how many requests have been started

storeVars == <<fs, sess, last, overlap, started>>

vars ==
    <<entries, prev, today, result, history, origin, issued,
      fs, sess, last, overlap, started>>

(* The sessions that can be open on one storage file at a time: two browser
   tabs, or the web application and the command-line tool. *)
Sessions == {"s1", "s2"}

NoFile == [exists |-> FALSE, data |-> <<>>]

IdleSession ==
    [pc |-> "idle", op |-> "none", id |-> <<>>, remembered |-> FALSE,
     loaded |-> <<>>, repaired |-> FALSE, mem |-> <<>>, due |-> <<>>,
     buf |-> <<>>, off |-> 0, at |-> "none", ret |-> "none", out |-> "none",
     saves |-> 0]

(* No store in use: the state of the store variables in the specifications
   of the pure functions. *)
StoreIdle ==
    /\ fs = [name \in {"primary", "tmp"} |-> NoFile]
    /\ sess = [s \in Sessions |-> IdleSession]
    /\ last = [began |-> FALSE, prior |-> NoFile, target |-> <<>>]
    /\ overlap = FALSE
    /\ started = 0

----------------------------------------------------------------------------
(* Tagged JSON values.                                                     *)

Absent == [t |-> "absent", n |-> 0, s |-> <<>>]
Null == [t |-> "null", n |-> 0, s |-> <<>>]
IntV(k) == [t |-> "int", n |-> k, s |-> <<>>]
StrV(txt) == [t |-> "str", n |-> 0, s |-> txt]

IsInt(v) == v.t = "int"
IsStr(v) == v.t = "str"
IsAbsent(v) == v.t = "absent"

Fields ==
    {"id", "word", "definition", "context", "created_at", "next_review",
     "interval_days", "success_streak", "review_count"}

(* dict.get(key, default) *)
Get(entry, key, default) == IF IsAbsent(entry[key]) THEN default ELSE entry[key]

----------------------------------------------------------------------------
(* Text: character codes.                                                  *)

Dash == 45
Space == 32
Zero == 48

IsDigit(c) == c \in 48..57
DigitOf(c) == c - 48

Min(a, b) == IF a <= b THEN a ELSE b
Max(a, b) == IF a >= b THEN a ELSE b

(* str < str: lexical by code point, a proper prefix first. *)
RECURSIVE TextLess(_, _)
TextLess(a, b) ==
    IF b = <<>> THEN FALSE
    ELSE IF a = <<>> THEN TRUE
    ELSE IF Head(a) # Head(b) THEN Head(a) < Head(b)
    ELSE TextLess(Tail(a), Tail(b))

----------------------------------------------------------------------------
(* The calendar of datetime.date.                                          *)

IsLeap(y) == y % 4 = 0 /\ (y % 100 # 0 \/ y % 400 = 0)

DaysInMonth(y, m) ==
    IF m = 2 THEN (IF IsLeap(y) THEN 29 ELSE 28)
    ELSE IF m \in {4, 6, 9, 11} THEN 30 ELSE 31

DaysBeforeYear(y) ==
    (y - 1) * 365 + ((y - 1) \div 4) - ((y - 1) \div 100) + ((y - 1) \div 400)

RECURSIVE DaysBeforeMonth(_, _)
DaysBeforeMonth(y, m) ==
    IF m = 1 THEN 0 ELSE DaysBeforeMonth(y, m - 1) + DaysInMonth(y, m - 1)

(* date(y, m, d).toordinal() *)
Ymd2Ord(y, m, d) == DaysBeforeYear(y) + DaysBeforeMonth(y, m) + d

(* date.fromordinal(n): the year, month and day of ordinal n. *)
Ord2Ymd(n) ==
    LET n0 == n - 1
        n400 == n0 \div 146097
        r400 == n0 % 146097
        n100 == r400 \div 36524
        r100 == r400 % 36524
        n4 == r100 \div 1461
        r4 == r100 % 1461
        n1 == r4 \div 365
        r1 == r4 % 365
        year == n400 * 400 + 1 + n100 * 100 + n4 * 4 + n1
    IN  IF n1 = 4 \/ n100 = 4
        THEN [y |-> year - 1, m |-> 12, d |-> 31]
        ELSE LET month == CHOOSE m \in 1..12 :
                     /\ DaysBeforeMonth(year, m) <= r1
                     /\ r1 < DaysBeforeMonth(year, m) + DaysInMonth(year, m)
             IN  [y |-> year, m |-> month,
                  d |-> r1 - DaysBeforeMonth(year, month) + 1]

(* datetime.min.toordinal() *)
MinOrdinal == Ymd2Ord(1, 1, 1)

----------------------------------------------------------------------------
(* DATE_FMT = "%Y-%m-%d": strftime and strptime.                           *)

Pad2(k) == <<Zero + (k \div 10), Zero + (k % 10)>>
Pad4(k) ==
    <<Zero + (k \div 1000), Zero + ((k \div 100) % 10),
      Zero + ((k \div 10) % 10), Zero + (k % 10)>>

(* date.strftime(DATE_FMT), for the four-digit years the program runs in. *)
Strftime(ord) ==
    LET ymd == Ord2Ymd(ord)
    IN  Pad4(ymd.y) \o <<Dash>> \o Pad2(ymd.m) \o <<Dash>> \o Pad2(ymd.d)

(* The characters of txt from position p on, "" past its end. *)
From(txt, p) == IF p > Len(txt) THEN <<>> ELSE SubSeq(txt, p, Len(txt))

(* How many characters the month directive 1[0-2]|0[1-9]|[1-9] takes at the
   head of txt when a "-" must follow it; 0 when it does not match. *)
MonthWidth(txt) ==
    IF Len(txt) >= 2 /\ txt[1] = 49 /\ txt[2] \in 48..50 THEN 2
    ELSE IF Len(txt) >= 2 /\ txt[1] = 48 /\ txt[2] \in 49..57 THEN 2
    ELSE IF Len(txt) >= 1 /\ txt[1] \in 49..57 THEN 1
    ELSE 0

(* The same for the day directive 3[01]|[12]\d|0[1-9]|[1-9]| [1-9], the
   last of the format: the first alternative that matches is taken. *)
DayWidth(txt) ==
    IF Len(txt) >= 2 /\ txt[1] = 51 /\ txt[2] \in 48..49 THEN 2
    ELSE IF Len(txt) >= 2 /\ txt[1] \in 49..50 /\ IsDigit(txt[2]) THEN 2
    ELSE IF Len(txt) >= 2 /\ txt[1] = 48 /\ txt[2] \in 49..57 THEN 2
    ELSE IF Len(txt) >= 1 /\ txt[1] \in 49..57 THEN 1
    ELSE IF Len(txt) >= 2 /\ txt[1] = Space /\ txt[2] \in 49..57 THEN 2
    ELSE 0

(* The number a run of digits (and a leading space) spells. *)
RECURSIVE Number(_)
Number(txt) ==
    IF txt = <<>> THEN 0
    ELSE IF ~IsDigit(txt[Len(txt)]) THEN Number(SubSeq(txt, 1, Len(txt) - 1))
    ELSE 10 * Number(SubSeq(txt, 1, Len(txt) - 1)) + DigitOf(txt[Len(txt)])

(* datetime.strptime(txt, DATE_FMT).date(): [ok, ord]; ok is FALSE where
   strptime raises ValueError (no match, unconverted data, no such day). *)
Strptime(txt) ==
    LET bad == [ok |-> FALSE, ord |-> 0]
        rest1 == From(txt, 6)
        mw == MonthWidth(rest1)
        rest2 == From(rest1, mw + 2)
        dw == DayWidth(rest2)
    IN  IF ~(Len(txt) >= 5 /\ \A i \in 1..4 : IsDigit(txt[i]) /\ txt[5] = Dash)
        THEN bad
        ELSE IF mw = 0 \/ Len(rest1) < mw + 1 \/ rest1[mw + 1] # Dash THEN bad
        ELSE IF dw = 0 \/ Len(rest2) # dw THEN bad
        ELSE LET y == Number(SubSeq(txt, 1, 4))
                 m == Number(SubSeq(rest1, 1, mw))
                 d == Number(rest2)
             IN  IF y < 1 \/ d > DaysInMonth(y, m) THEN bad
                 ELSE [ok |-> TRUE, ord |-> Ymd2Ord(y, m, d)]

----------------------------------------------------------------------------
(* uuid.uuid4(): the k-th identifier the generator hands out.  Two calls   *)
(* never return the same text.                                             *)

Uuid(k) == <<117, 117, 105, 100, Dash, Zero + k>>

----------------------------------------------------------------------------
(* create_entry(word, definition, context, now), with the uuid it draws.   *)

(* An entry whose first review is the day after its creation. *)
create_entry_Tomorrow(word, definition, context, now, uuid) ==
    [id |-> StrV(uuid),
     word |-> word,
     definition |-> definition,
     context |-> context,
     created_at |-> StrV(Strftime(now)),
     next_review |-> StrV(Strftime(now + 1)),
     interval_days |-> IntV(1),
     success_streak |-> IntV(0),
     review_count |-> IntV(0)]

create_entry(word, definition, context, now, uuid) ==
    [id |-> StrV(uuid),
     word |-> word,
     definition |-> definition,
     context |-> context,
     created_at |-> StrV(Strftime(now)),
     next_review |-> StrV(Strftime(now)),
     interval_days |-> IntV(1),
     success_streak |-> IntV(0),
     review_count |-> IntV(0)]

----------------------------------------------------------------------------
(* normalize_entries: one pass of the loop body over a record.  `k` is the *)
(* number of uuids drawn so far; the result carries the repaired record,   *)
(* whether it was changed and the uuids drawn after it.                    *)

(* A present but empty, zero or null value taken for a missing key. *)
Missing_OrFalsy(entry, key) ==
    \/ IsAbsent(entry[key])
    \/ entry[key] \in {Null, IntV(0), StrV(<<>>)}

(* key not in entry *)
Missing(entry, key) == IsAbsent(entry[key])

(* The default written whether or not the key is there. *)
Fill_Always(acc, key, value) ==
    [e |-> [acc.e EXCEPT ![key] = value], changed |-> TRUE]

(* if key not in entry: entry[key] = value; changed = True *)
Fill(acc, key, value) ==
    IF Missing(acc.e, key)
    THEN [e |-> [acc.e EXCEPT ![key] = value], changed |-> TRUE]
    ELSE acc

normalize_entry(entry, now, k) ==
    LET a0 == [e |-> entry, changed |-> FALSE]
        a1 == Fill(a0, "id", StrV(Uuid(k)))
        a2 == Fill(a1, "created_at", StrV(Strftime(now)))
        a3 == Fill(a2, "interval_days", IntV(1))
        a4 == Fill(a3, "success_streak", IntV(0))
        a5 == Fill(a4, "context", StrV(<<>>))
        a6 == Fill(a5, "next_review", a5.e["created_at"])
        a7 == Fill(a6, "review_count", IntV(0))
    IN  [e |-> a7.e,
         changed |-> a7.changed,
         k |-> IF Missing(entry, "id") THEN k + 1 ELSE k]

(* normalize_entries(entries): [entries, changed, k]; the repair is made in
   place, so `entries` is the caller's collection after the call. *)
RECURSIVE normalize_from(_, _, _, _, _)
normalize_from(todo, done, changed, now, k) ==
    IF todo = <<>> THEN [entries |-> done, changed |-> changed, k |-> k]
    ELSE LET r == normalize_entry(Head(todo), now, k)
         IN  normalize_from(Tail(todo), Append(done, r.e),
                            changed \/ r.changed, now, r.k)

normalize_entries(coll, now, k) == normalize_from(coll, <<>>, FALSE, now, k)

----------------------------------------------------------------------------
(* update_review_state(entry, remembered, today): [e, raised].  The entry  *)
(* is mutated in place, so a TypeError part of the way through leaves the  *)
(* assignments made before it.                                             *)

MinInterval == 1
MaxInterval == 30

(* The cap applied before the doubling instead of after it. *)
Clamp_CapFirst(interval) == Max(MinInterval, Min(MaxInterval, interval) * 2)

(* The upper cap left out. *)
Clamp_NoCap(interval) == Max(MinInterval, interval * 2)

(* max(1, min(30, interval * 2)) *)
Clamp(interval) == Max(MinInterval, Min(MaxInterval, interval * 2))

(* The success path with the streak set to 1 instead of raised by 1. *)
RememberedBranch_StreakOne(entry) ==
    LET streak == Get(entry, "success_streak", IntV(0))
        e1 == [entry EXCEPT !["success_streak"] = IntV(1)]
        interval == Get(e1, "interval_days", IntV(1))
    IN  IF ~IsInt(streak) THEN [e |-> entry, raised |-> TRUE]
        ELSE IF ~IsInt(interval) THEN [e |-> e1, raised |-> TRUE]
        ELSE [e |-> [e1 EXCEPT !["interval_days"] = IntV(Clamp(interval.n))],
              raised |-> FALSE]

RememberedBranch(entry) ==
    LET streak == Get(entry, "success_streak", IntV(0))
        e1 == [entry EXCEPT !["success_streak"] = IntV(streak.n + 1)]
        interval == Get(e1, "interval_days", IntV(1))
    IN  IF ~IsInt(streak) THEN [e |-> entry, raised |-> TRUE]
        ELSE IF ~IsInt(interval) THEN [e |-> e1, raised |-> TRUE]
        ELSE [e |-> [e1 EXCEPT !["interval_days"] = IntV(Clamp(interval.n))],
              raised |-> FALSE]

(* The failure path resetting the interval but not the streak. *)
ForgottenBranch_KeepStreak(entry) ==
    [e |-> [entry EXCEPT !["interval_days"] = IntV(MinInterval)],
     raised |-> FALSE]

ForgottenBranch(entry) ==
    [e |-> [entry EXCEPT !["success_streak"] = IntV(0),
                         !["interval_days"] = IntV(MinInterval)],
     raised |-> FALSE]

(* The next review scheduled from the interval the entry came in with. *)
NextReviewDate_OldInterval(old, new, day) ==
    day + Get(old, "interval_days", IntV(1)).n

(* The next review scheduled for the day of the review itself. *)
NextReviewDate_SameDay(old, new, day) == day

(* today + timedelta(days=entry["interval_days"]): `old` is the entry as it
   was passed in, `new` the entry after the branch above. *)
NextReviewDate(old, new, day) == day + new["interval_days"].n

(* Only a remembered outcome counted as a review. *)
CountAfter_OnlyRemembered(count, remembered) ==
    IF remembered THEN count + 1 ELSE count

(* entry.get("review_count", 0) + 1 *)
CountAfter(count, remembered) == count + 1

update_review_state(entry, remembered, day) ==
    LET b == IF remembered THEN RememberedBranch(entry)
             ELSE ForgottenBranch(entry)
        e3 == [b.e EXCEPT
                 !["next_review"] =
                     StrV(Strftime(NextReviewDate(entry, b.e, day)))]
        count == Get(e3, "review_count", IntV(0))
    IN  IF b.raised THEN b
        ELSE IF ~IsInt(count) THEN [e |-> e3, raised |-> TRUE]
        ELSE [e |-> [e3 EXCEPT !["review_count"] =
                                   IntV(CountAfter(count.n, remembered))],
              raised |-> FALSE]

----------------------------------------------------------------------------
(* get_due_entries(entries, as_of): [due, raised].                         *)

(* The try block of the loop: [raised, date].  A missing key (KeyError) or
   a string strptime rejects (ValueError) gives as_of; any other value makes
   strptime raise TypeError, which the except clause does not catch. *)
EffectiveNextReview(entry, as_of) ==
    LET raw == entry["next_review"]
        parsed == Strptime(raw.s)
    IN  IF IsAbsent(raw) THEN [raised |-> FALSE, date |-> as_of]
        ELSE IF ~IsStr(raw) THEN [raised |-> TRUE, date |-> as_of]
        ELSE IF parsed.ok THEN [raised |-> FALSE, date |-> parsed.ord]
        ELSE [raised |-> FALSE, date |-> as_of]

(* Same-day entries left out. *)
IsDue_Strict(next_review, as_of) == next_review < as_of

(* next_review <= as_of_date *)
IsDue(next_review, as_of) == next_review <= as_of

RECURSIVE DuePairs(_, _)
DuePairs(coll, as_of) ==
    IF coll = <<>> THEN <<>>
    ELSE LET d == EffectiveNextReview(Head(coll), as_of).date
             here == IF IsDue(d, as_of)
                     THEN <<[entry |-> Head(coll), date |-> d]>> ELSE <<>>
         IN  here \o DuePairs(Tail(coll), as_of)

(* A comparison that also holds of equal dates, as an unstable sort makes. *)
DueLess_OrEqual(a, b) == a.date <= b.date

DueLess(a, b) == a.date < b.date

(* due_entries.sort(key=lambda item: item[1]).  Python's sort is stable, so
   its result is the one an insertion sort gives that puts each item after
   every item already placed whose key is not greater. *)
RECURSIVE InsertDue(_, _)
InsertDue(x, placed) ==
    IF placed = <<>> THEN <<x>>
    ELSE IF DueLess(x, Head(placed)) THEN <<x>> \o placed
    ELSE <<Head(placed)>> \o InsertDue(x, Tail(placed))

RECURSIVE DueOrderFrom(_, _)
DueOrderFrom(items, placed) ==
    IF items = <<>> THEN placed
    ELSE DueOrderFrom(Tail(items), InsertDue(Head(items), placed))

DueOrder(pairs) == DueOrderFrom(pairs, <<>>)

get_due_entries(coll, as_of) ==
    LET sorted == DueOrder(DuePairs(coll, as_of))
    IN  IF \E i \in 1..Len(coll) : EffectiveNextReview(coll[i], as_of).raised
        THEN [due |-> <<>>, raised |-> TRUE]
        ELSE [due |-> [i \in 1..Len(sorted) |-> sorted[i].entry],
              raised |-> FALSE]

----------------------------------------------------------------------------
(* sort_entries(entries).                                                  *)

(* int(text): [ok, n]; ValueError unless the text is an optional sign and
   digits. *)
IntOfText(txt) ==
    LET signed == txt # <<>> /\ txt[1] \in {43, Dash}
        digits == IF signed THEN Tail(txt) ELSE txt
    IN  IF digits = <<>> \/ \E i \in 1..Len(digits) : ~IsDigit(digits[i])
        THEN [ok |-> FALSE, n |-> 0]
        ELSE [ok |-> TRUE,
              n |-> IF signed /\ txt[1] = Dash THEN -Number(digits)
                    ELSE Number(digits)]

_review_count(entry) ==
    LET raw == Get(entry, "review_count", IntV(0))
    IN  IF IsInt(raw) THEN raw.n
        ELSE IF IsStr(raw) /\ IntOfText(raw.s).ok THEN IntOfText(raw.s).n
        ELSE 0

(* The ordinal itself as the key: the oldest entry first. *)
_created_at_order_Oldest(entry) ==
    LET raw == entry["created_at"]
        parsed == Strptime(raw.s)
    IN  IF IsStr(raw) /\ parsed.ok THEN parsed.ord ELSE MinOrdinal

_created_at_order(entry) ==
    LET raw == entry["created_at"]
        parsed == Strptime(raw.s)
    IN  IF IsStr(raw) /\ parsed.ok THEN -parsed.ord ELSE -MinOrdinal

_word_key(entry) == IF IsStr(entry["word"]) THEN entry["word"].s ELSE <<>>

SortKey(entry) ==
    [count |-> _review_count(entry),
     created |-> _created_at_order(entry),
     word |-> _word_key(entry)]

(* Tuple comparison of two keys. *)
KeyLess(a, b) ==
    IF a.count # b.count THEN a.count < b.count
    ELSE IF a.created # b.created THEN a.created < b.created
    ELSE TextLess(a.word, b.word)

EntryLess(a, b) == KeyLess(SortKey(a), SortKey(b))

(* sorted(entries, key=...): stable, as the sort of get_due_entries. *)
RECURSIVE InsertEntry(_, _)
InsertEntry(x, placed) ==
    IF placed = <<>> THEN <<x>>
    ELSE IF EntryLess(x, Head(placed)) THEN <<x>> \o placed
    ELSE <<Head(placed)>> \o InsertEntry(x, Tail(placed))

RECURSIVE SortFrom(_, _)
SortFrom(items, placed) ==
    IF items = <<>> THEN placed
    ELSE SortFrom(Tail(items), InsertEntry(Head(items), placed))

sort_entries(coll) == SortFrom(coll, <<>>)

----------------------------------------------------------------------------
(* Texts and values the specifications draw their inputs from.             *)

Word_apple == <<97, 112, 112, 108, 101>>
Word_mango == <<109, 97, 110, 103, 111>>
Word_zebra == <<122, 101, 98, 114, 97>>
Text_abc == <<97, 98, 99>>

(* A record with the given fields and every other field absent. *)
Record(given) ==
    [f \in Fields |-> IF f \in DOMAIN given THEN given[f] ELSE Absent]

(* All sequences over S of length at most n. *)
SeqsUpTo(S, n) == UNION {[1..k -> S] : k \in 0..n}

----------------------------------------------------------------------------
(* SpecReview: update_review_state applied again and again to one entry.   *)
(* The entry is one create_entry made, one normalize_entries repaired from *)
(* a record without interval_days, or one read as stored, whatever its     *)
(* schedule fields hold.                                                   *)

MaxReviews == 5

ReviewDays == {Ymd2Ord(2023, 12, 15), Ymd2Ord(2024, 2, 20)}

StoredIntervals ==
    {Absent, Null, StrV(Text_abc), IntV(-3), IntV(0), IntV(1), IntV(8),
     IntV(15), IntV(16), IntV(31)}
StoredStreaks == {Absent, Null, IntV(0), IntV(3)}
StoredCounts == {Absent, StrV(Text_abc), IntV(0), IntV(4)}

StoredEntries ==
    {[create_entry(StrV(Word_apple), StrV(Text_abc), StrV(<<>>),
                   Ymd2Ord(2024, 1, 2), Uuid(0))
        EXCEPT !["interval_days"] = i, !["success_streak"] = s,
               !["review_count"] = c] :
        i \in StoredIntervals, s \in StoredStreaks, c \in StoredCounts}

LegacyRecords ==
    {Record([word |-> StrV(Word_apple), definition |-> StrV(Text_abc)]),
     Record([word |-> StrV(Word_mango), definition |-> StrV(Text_abc),
             id |-> StrV(Uuid(7)), context |-> StrV(Text_abc),
             created_at |-> StrV(Strftime(Ymd2Ord(2024, 1, 2))),
             next_review |-> StrV(Strftime(Ymd2Ord(2024, 1, 9))),
             success_streak |-> IntV(2), review_count |-> IntV(3)]),
     Record([word |-> StrV(Word_zebra), definition |-> StrV(Text_abc),
             success_streak |-> Null])}

ReviewInit ==
    /\ StoreIdle
    /\ \E now \in ReviewDays :
         /\ today = now
         /\ \/ /\ origin = "created"
               /\ entries = <<create_entry(StrV(Word_apple), StrV(Text_abc),
                                           StrV(<<>>), now, Uuid(0))>>
               /\ issued = 1
            \/ /\ origin = "repaired"
               /\ \E rec \in LegacyRecords :
                    LET r == normalize_entries(<<rec>>, now, 0)
                    IN  entries = r.entries /\ issued = r.k
            \/ /\ origin = "stored"
               /\ \E e \in StoredEntries : entries = <<e>>
               /\ issued = 0
    /\ prev = entries
    /\ result = [op |-> "init", raised |-> FALSE]
    /\ history = <<>>

(* One review outcome: update_review_state(entries[1], remembered, day). *)
Review(remembered, day) ==
    /\ ~result.raised
    /\ Len(history) < MaxReviews
    /\ LET r == update_review_state(entries[1], remembered, day)
       IN  /\ entries' = <<r.e>>
           /\ result' = [op |-> IF remembered THEN "remembered"
                                ELSE "forgotten",
                         raised |-> r.raised]
    /\ prev' = entries
    /\ today' = day
    /\ history' = Append(history, remembered)
    /\ UNCHANGED <<origin, issued>>
    /\ UNCHANGED storeVars

Remember == \E day \in ReviewDays : Review(TRUE, day)
Forget == \E day \in ReviewDays : Review(FALSE, day)

ReviewNext == Remember \/ Forget

SpecReview == ReviewInit /\ [][ReviewNext]_vars

(* The entry under review, as it is and as it was before the last call. *)
Cur == entries[1]
Old == prev[1]

Reviewed == result.op \in {"remembered", "forgotten"}

(* The interval a success must give an entry whose interval was k. *)
Doubled(k) == IF 2 * k < 1 THEN 1 ELSE IF 2 * k > 30 THEN 30 ELSE 2 * k

AllRemembered == \A i \in 1..Len(history) : history[i]

(* C1: for an entry whose stored interval_days is an integer (zero,
   negative and above 30 included), a remembered outcome raises
   success_streak by exactly 1 and sets interval_days to
   max(1, min(30, 2 * old interval)); from interval_days = 1, five
   remembered outcomes in a row give 2, 4, 8, 16, 30. *)
C1_RememberedDoublesAndCaps ==
    /\ (/\ result.op = "remembered"
        /\ IsInt(Old["interval_days"])
        /\ IsInt(Get(Old, "success_streak", IntV(0))))
       => /\ Cur["success_streak"]
               = IntV(Get(Old, "success_streak", IntV(0)).n + 1)
          /\ Cur["interval_days"] = IntV(Doubled(Old["interval_days"].n))
    /\ (origin = "created" /\ AllRemembered /\ Len(history) \in 1..5)
       => Cur["interval_days"] = IntV(<<2, 4, 8, 16, 30>>[Len(history)])

C1_Witness ==
    /\ origin = "created"
    /\ history = <<TRUE, TRUE, TRUE, TRUE, TRUE>>
    /\ Old["interval_days"] = IntV(16)
    /\ Cur["interval_days"] = IntV(30)
    /\ Cur["success_streak"] = IntV(5)

(* C2: whatever success_streak and interval_days an entry had, one
   forgotten outcome leaves success_streak = 0 and interval_days = 1 and
   sets next_review to the day after today. *)
C2_ForgottenResets ==
    result.op = "forgotten"
    => /\ Cur["success_streak"] = IntV(0)
       /\ Cur["interval_days"] = IntV(1)
       /\ IsStr(Cur["next_review"])
       /\ Strptime(Cur["next_review"].s) = [ok |-> TRUE, ord |-> today + 1]

C2_Witness ==
    /\ result.op = "forgotten"
    /\ IsInt(Old["success_streak"]) /\ Old["success_streak"].n > 0
    /\ IsInt(Old["interval_days"]) /\ Old["interval_days"].n > 1
    /\ Cur["success_streak"] = IntV(0)
    /\ Cur["interval_days"] = IntV(1)

(* C3: after every update_review_state call that returns, next_review is
   today plus the interval the entry has after the call, not the interval
   it had before. *)
C3_NextReviewFromNewInterval ==
    (Reviewed /\ ~result.raised)
    => /\ IsStr(Cur["next_review"])
       /\ Strptime(Cur["next_review"].s)
            = [ok |-> TRUE, ord |-> today + Cur["interval_days"].n]

C3_Witness ==
    /\ result.op = "remembered" /\ ~result.raised
    /\ Old["interval_days"] = IntV(8)
    /\ Cur["interval_days"] = IntV(16)
    /\ Strptime(Cur["next_review"].s).ord = today + 16
    /\ Strptime(Cur["next_review"].s).ord # today + 8

(* C4: every update_review_state call that returns raises review_count by
   exactly 1, whatever the outcome; an entry created with review_count = 0
   has review_count = n after n outcomes, and the count never decreases. *)
C4_ReviewCountCounts ==
    /\ (Reviewed /\ ~result.raised)
       => /\ Cur["review_count"]
               = IntV(Get(Old, "review_count", IntV(0)).n + 1)
          /\ Cur["review_count"].n > Get(Old, "review_count", IntV(0)).n
    /\ origin = "created" => Cur["review_count"] = IntV(Len(history))

C4_Witness ==
    /\ origin = "created"
    /\ Len(history) = 4
    /\ \E i, j \in 1..4 : history[i] /\ ~history[j]
    /\ Cur["review_count"] = IntV(4)

(* C5: an entry made by create_entry, or repaired by normalize_entries from
   a record without interval_days, and then changed only by
   update_review_state has 1 <= interval_days <= 30 in every state, for
   every sequence of outcomes. *)
C5_IntervalInRange ==
    origin \in {"created", "repaired"}
    => /\ IsInt(Cur["interval_days"])
       /\ Cur["interval_days"].n >= 1
       /\ Cur["interval_days"].n <= 30

C5_Witness ==
    /\ origin = "repaired"
    /\ Len(history) >= 5
    /\ AllRemembered
    /\ Cur["interval_days"] = IntV(30)

----------------------------------------------------------------------------
(* SpecDue: get_due_entries applied to a collection whose next_review      *)
(* fields are well formed, missing, not a date or not a string.            *)

MaxDueEntries == 3

Date_2024_02_15 == <<50, 48, 50, 52, 45, 48, 50, 45, 49, 53>>
Date_2024_02_20 == <<50, 48, 50, 52, 45, 48, 50, 45, 50, 48>>
Date_2024_02_30 == <<50, 48, 50, 52, 45, 48, 50, 45, 51, 48>>
Date_2024_03_01 == <<50, 48, 50, 52, 45, 48, 51, 45, 48, 49>>
Date_2024_03_04 == <<50, 48, 50, 52, 45, 48, 51, 45, 48, 52>>
Date_2024_03_05 == <<50, 48, 50, 52, 45, 48, 51, 45, 48, 53>>
Date_2024_03_06 == <<50, 48, 50, 52, 45, 48, 51, 45, 48, 54>>
Date_2024_3_5 == <<50, 48, 50, 52, 45, 51, 45, 53>>

DueSamples ==
    {Absent, Null, StrV(Text_abc), StrV(Date_2024_02_30),
     StrV(Date_2024_3_5), StrV(Date_2024_02_15), StrV(Date_2024_02_20),
     StrV(Date_2024_03_01), StrV(Date_2024_03_04), StrV(Date_2024_03_05),
     StrV(Date_2024_03_06)}

AsOfDays == {Ymd2Ord(2024, 2, 20), Ymd2Ord(2024, 3, 5)}

(* The i-th entry of a stored collection, with the given next_review. *)
DueEntry(i, next_review) ==
    [create_entry(StrV(Word_apple), StrV(Text_abc), StrV(<<>>),
                  Ymd2Ord(2024, 1, 2), Uuid(i))
       EXCEPT !["next_review"] = next_review]

DueInit ==
    /\ StoreIdle
    /\ \E k \in 0..MaxDueEntries : \E f \in [1..k -> DueSamples] :
         entries = [i \in 1..k |-> DueEntry(i, f[i])]
    /\ prev = entries
    /\ today = Ymd2Ord(2024, 1, 2)
    /\ result = [op |-> "init", raised |-> FALSE, due |-> <<>>]
    /\ history = <<>>
    /\ origin = "stored"
    /\ issued = 0

(* get_due_entries(entries, as_of): a read-only query. *)
Due(as_of) ==
    /\ result.op = "init"
    /\ LET r == get_due_entries(entries, as_of)
       IN  result' = [op |-> "due", raised |-> r.raised, due |-> r.due]
    /\ today' = as_of
    /\ prev' = entries
    /\ UNCHANGED <<entries, history, origin, issued>>
    /\ UNCHANGED storeVars

DueNext == \E as_of \in AsOfDays : Due(as_of)

SpecDue == DueInit /\ [][DueNext]_vars

Returned == result.op = "due" /\ ~result.raised

InDue(e) == \E j \in 1..Len(result.due) : result.due[j] = e

WellFormed(e) == IsStr(e["next_review"]) /\ Strptime(e["next_review"].s).ok

(* The date an entry counts as having: its own when well formed, else the
   reference date. *)
EffectiveDate(e) ==
    IF WellFormed(e) THEN Strptime(e["next_review"].s).ord ELSE today

(* Where an entry stands in the input collection. *)
InputIndex(e) == CHOOSE i \in 1..Len(entries) : entries[i] = e

(* C6: get_due_entries returns an entry with a well-formed next_review if
   and only if that date is on or before as_of: a date equal to as_of is
   due, the day before is due, the day after is not. *)
C6_DueBoundary ==
    Returned
    => \A i \in 1..Len(entries) :
         /\ WellFormed(entries[i])
            => (InDue(entries[i])
                <=> Strptime(entries[i]["next_review"].s).ord <= today)
         /\ today = Ymd2Ord(2024, 3, 5)
            => /\ entries[i]["next_review"] = StrV(Date_2024_03_05)
                  => InDue(entries[i])
               /\ entries[i]["next_review"] = StrV(Date_2024_03_04)
                  => InDue(entries[i])
               /\ entries[i]["next_review"] = StrV(Date_2024_03_06)
                  => ~InDue(entries[i])

C6_Witness ==
    /\ Returned
    /\ today = Ymd2Ord(2024, 3, 5)
    /\ Len(entries) = 3
    /\ entries[1]["next_review"] = StrV(Date_2024_03_06)
    /\ entries[2]["next_review"] = StrV(Date_2024_03_05)
    /\ entries[3]["next_review"] = StrV(Date_2024_03_04)
    /\ result.due = <<entries[3], entries[2]>>

(* C7: an entry whose next_review is missing or is not a parseable
   YYYY-MM-DD date is in the output of get_due_entries for every as_of, and
   its presence neither makes the call fail nor hides another due entry. *)
C7_MalformedFailOpen ==
    result.op = "due"
    => /\ ~result.raised
       /\ \A i \in 1..Len(entries) :
            (~WellFormed(entries[i]) \/ EffectiveDate(entries[i]) <= today)
            => InDue(entries[i])

(* C8: the returned sequence ascends by effective next_review date, an
   entry with a missing or malformed date counting as dated as_of, and
   entries with equal effective dates keep their input order. *)
C8_DueOrder ==
    Returned
    => \A j \in 1..(Len(result.due) - 1) :
         LET a == result.due[j]
             b == result.due[j + 1]
         IN  \/ EffectiveDate(a) < EffectiveDate(b)
             \/ /\ EffectiveDate(a) = EffectiveDate(b)
                /\ InputIndex(a) < InputIndex(b)

C8_Witness ==
    /\ Returned
    /\ today = Ymd2Ord(2024, 3, 5)
    /\ Len(entries) = 3
    /\ entries[1]["next_review"] = StrV(Date_2024_03_01)
    /\ entries[2]["next_review"] = StrV(Date_2024_02_15)
    /\ entries[3]["next_review"] = StrV(Date_2024_02_20)
    /\ result.due = <<entries[2], entries[3], entries[1]>>

----------------------------------------------------------------------------
(* SpecSort: sort_entries applied to a collection whose review_count,      *)
(* created_at and word fields are well formed, missing or of another type. *)

MaxSortEntries == 3

Date_0001_01_01 == <<48, 48, 48, 49, 45, 48, 49, 45, 48, 49>>
Date_2024_01_01 == <<50, 48, 50, 52, 45, 48, 49, 45, 48, 49>>
Date_2024_01_02 == <<50, 48, 50, 52, 45, 48, 49, 45, 48, 50>>
Date_2024_01_03 == <<50, 48, 50, 52, 45, 48, 49, 45, 48, 51>>
Text_1 == <<49>>

(* review_count, created_at and word of the entries a collection is drawn
   from: the three of the ordering scenario, then the malformed ones. *)
SortSamples ==
    {<<IntV(0), StrV(Date_2024_01_01), StrV(Word_zebra)>>,
     <<IntV(0), StrV(Date_2024_01_02), StrV(Word_apple)>>,
     <<IntV(1), StrV(Date_2024_01_03), StrV(Word_mango)>>,
     <<Absent, StrV(Text_abc), StrV(Word_apple)>>,
     <<StrV(Text_abc), Absent, Null>>,
     <<Null, StrV(Date_0001_01_01), StrV(Word_mango)>>,
     <<StrV(Text_1), StrV(Date_2024_01_02), Absent>>,
     <<IntV(0), Null, StrV(Word_zebra)>>}

SortEntry(i, sample) ==
    [create_entry(sample[3], StrV(Text_abc), StrV(<<>>),
                  Ymd2Ord(2024, 1, 2), Uuid(i))
       EXCEPT !["review_count"] = sample[1], !["created_at"] = sample[2]]

SortInit ==
    /\ StoreIdle
    /\ \E k \in 0..MaxSortEntries : \E f \in [1..k -> SortSamples] :
         entries = [i \in 1..k |-> SortEntry(i, f[i])]
    /\ prev = entries
    /\ today = Ymd2Ord(2024, 1, 2)
    /\ result = [op |-> "init", sorted |-> <<>>]
    /\ history = <<>>
    /\ origin = "stored"
    /\ issued = 0

(* sort_entries(entries): returns a new list, the input is not mutated. *)
Sort ==
    /\ result.op = "init"
    /\ result' = [op |-> "sort", sorted |-> sort_entries(entries)]
    /\ prev' = entries
    /\ UNCHANGED <<entries, today, history, origin, issued>>
    /\ UNCHANGED storeVars

SortNext == Sort

SpecSort == SortInit /\ [][SortNext]_vars

(* The key of the claim, read off the fields: the review count (0 when
   missing or not numeric), the creation date (the minimum date when
   missing or unparseable) and the word ("" when missing or not a string). *)
ValidCreated(e) == IsStr(e["created_at"]) /\ Strptime(e["created_at"].s).ok

KeyCount(e) ==
    IF IsInt(e["review_count"]) THEN e["review_count"].n
    ELSE IF IsStr(e["review_count"]) /\ IntOfText(e["review_count"].s).ok
    THEN IntOfText(e["review_count"].s).n
    ELSE 0

KeyDate(e) ==
    IF ValidCreated(e) THEN Strptime(e["created_at"].s).ord
    ELSE Ymd2Ord(1, 1, 1)

KeyWord(e) == IF IsStr(e["word"]) THEN e["word"].s ELSE <<>>

(* a is not after b in the order of the claim. *)
NotAfter(a, b) ==
    \/ KeyCount(a) < KeyCount(b)
    \/ /\ KeyCount(a) = KeyCount(b)
       /\ \/ KeyDate(a) > KeyDate(b)
          \/ /\ KeyDate(a) = KeyDate(b)
             /\ (KeyWord(a) = KeyWord(b) \/ TextLess(KeyWord(a), KeyWord(b)))

IsPermutation(out, inp) ==
    /\ Len(out) = Len(inp)
    /\ \A i \in 1..Len(inp) :
         Cardinality({j \in 1..Len(out) : out[j] = inp[i]}) = 1

SortedByKey ==
    /\ IsPermutation(result.sorted, entries)
    /\ \A j \in 1..(Len(result.sorted) - 1) :
         NotAfter(result.sorted[j], result.sorted[j + 1])

(* Among equally reviewed entries, every entry without a valid created_at
   stands after every entry with a valid one that satisfies `when`. *)
InvalidAfterValid(when(_)) ==
    \A i, j \in 1..Len(result.sorted) :
        LET a == result.sorted[i]
            b == result.sorted[j]
        IN  (/\ KeyCount(a) = KeyCount(b)
             /\ ~ValidCreated(a)
             /\ ValidCreated(b) /\ when(b))
            => j < i

AnyDate(e) == TRUE
AfterMinDate(e) == KeyDate(e) > Ymd2Ord(1, 1, 1)

(* C9 as stated: sort_entries returns a permutation of its input ascending
   by (review_count, negated created_at date, word), a missing or
   unparseable created_at counting as the minimum date, so that it sorts
   after every valid date; a missing or non-string word counts as "", a
   missing or non-numeric review_count as 0. *)
C9_AsStated ==
    result.op = "sort" => (SortedByKey /\ InvalidAfterValid(AnyDate))

(* C9 as amended: the same, except that an entry with a missing or
   unparseable created_at sorts after every valid date later than
   0001-01-01 and ties with a created_at of 0001-01-01, where the word
   decides. *)
C9_SortedByKey ==
    result.op = "sort" => (SortedByKey /\ InvalidAfterValid(AfterMinDate))

C9_Witness ==
    /\ result.op = "sort"
    /\ Len(entries) = 3
    /\ entries[1]["word"] = StrV(Word_zebra)
    /\ entries[1]["created_at"] = StrV(Date_2024_01_01)
    /\ entries[2]["word"] = StrV(Word_apple)
    /\ entries[2]["review_count"] = IntV(0)
    /\ entries[3]["word"] = StrV(Word_mango)
    /\ entries[3]["review_count"] = IntV(1)
    /\ result.sorted = <<entries[2], entries[1], entries[3]>>

----------------------------------------------------------------------------
(* SpecNorm: normalize_entries applied again and again to a collection of  *)
(* records that lack any of the fields it fills.                           *)

MaxNormEntries == 2
MaxNormCalls == 2

NormDays == {Ymd2Ord(2024, 2, 29), Ymd2Ord(2024, 3, 1)}

NormFields ==
    {"id", "created_at", "interval_days", "success_streak", "context",
     "next_review", "review_count"}

(* A stored record that has word, definition and the fields of `present`. *)
Partial(present) ==
    LET full == [id |-> StrV(Uuid(9)),
                 word |-> StrV(Word_apple),
                 definition |-> StrV(Text_abc),
                 context |-> StrV(<<>>),
                 created_at |-> StrV(Date_2024_01_01),
                 next_review |-> StrV(Date_2024_01_03),
                 interval_days |-> IntV(2),
                 success_streak |-> IntV(0),
                 review_count |-> IntV(1)]
    IN  [f \in Fields |->
           IF f \in present \cup {"word", "definition"} THEN full[f]
           ELSE Absent]

NormShapes == {Partial(present) : present \in SUBSET NormFields}

NormSamples ==
    {Partial({}), Partial(NormFields), Partial(NormFields \ {"id"}),
     Partial(NormFields \ {"created_at", "next_review"}),
     Partial({"id", "created_at"}),
     [Partial({"created_at", "context"})
        EXCEPT !["created_at"] = Null, !["context"] = Null],
     [Partial(NormFields) EXCEPT !["word"] = Absent]}

NormInit ==
    /\ StoreIdle
    /\ \/ \E r \in NormShapes : entries = <<r>>
       \/ \E coll \in SeqsUpTo(NormSamples, MaxNormEntries) : entries = coll
    /\ prev = entries
    /\ today = Ymd2Ord(2024, 1, 2)
    /\ result = [op |-> "init", changed |-> FALSE]
    /\ history = <<>>
    /\ origin = "stored"
    /\ issued = 0

(* changed = normalize_entries(entries), run on the day `now`. *)
Normalize(now) ==
    /\ Len(history) < MaxNormCalls
    /\ LET r == normalize_entries(entries, now, issued)
       IN  /\ entries' = r.entries
           /\ result' = [op |-> "normalize", changed |-> r.changed]
           /\ history' = Append(history, r.changed)
           /\ issued' = r.k
    /\ prev' = entries
    /\ today' = now
    /\ UNCHANGED origin
    /\ UNCHANGED storeVars

NormNext == \E now \in NormDays : Normalize(now)

SpecNorm == NormInit /\ [][NormNext]_vars

(* C10: normalization is idempotent: on the result of a first call a second
   normalize_entries call returns False and leaves every field of every
   record as it was. *)
C10_NormalizeIdempotent ==
    Len(history) >= 2 => (result.changed = FALSE /\ entries = prev)

C10_Witness ==
    /\ history = <<TRUE, FALSE>>
    /\ Len(entries) = 2
    /\ issued = 2
    /\ entries[1]["created_at"] # StrV(Strftime(today))
    /\ entries[1]["next_review"] = entries[1]["created_at"]
    /\ entries = prev

(* The ids of a collection's records that have one. *)
IdsOf(coll) ==
    {coll[j]["id"] : j \in {k \in 1..Len(coll) : ~IsAbsent(coll[k]["id"])}}

(* The i-th record after a call, against the record `o` it was before. *)
Repaired(i, o, e) ==
    /\ \A f \in Fields : ~IsAbsent(o[f]) => e[f] = o[f]
    /\ \A f \in {"word", "definition"} : IsAbsent(o[f]) => IsAbsent(e[f])
    /\ IsAbsent(o["interval_days"]) => e["interval_days"] = IntV(1)
    /\ IsAbsent(o["success_streak"]) => e["success_streak"] = IntV(0)
    /\ IsAbsent(o["review_count"]) => e["review_count"] = IntV(0)
    /\ IsAbsent(o["context"]) => e["context"] = StrV(<<>>)
    /\ IsAbsent(o["created_at"]) => e["created_at"] = StrV(Strftime(today))
    /\ IsAbsent(o["next_review"]) => e["next_review"] = e["created_at"]
    /\ IsAbsent(o["id"])
       => /\ IsStr(e["id"])
          /\ e["id"] \notin IdsOf(prev)
          /\ \A j \in 1..Len(entries) : j # i => entries[j]["id"] # e["id"]

SomeFieldFilled ==
    \E i \in 1..Len(entries) : \E f \in Fields :
        IsAbsent(prev[i][f]) /\ ~IsAbsent(entries[i][f])

(* C11: normalize_entries fills the absent fields it has a default for and
   leaves the present ones as they are: interval_days 1, success_streak 0,
   review_count 0, context "", a fresh id, created_at the current date and
   next_review the record's created_at after repair; it returns True if
   and only if it filled at least one field of at least one record. *)
C11_NormalizeDefaults ==
    result.op = "normalize"
    => /\ Len(entries) = Len(prev)
       /\ \A i \in 1..Len(entries) : Repaired(i, prev[i], entries[i])
       /\ result.changed <=> SomeFieldFilled

C11_Witness ==
    /\ history = <<TRUE>>
    /\ Len(entries) = 2
    /\ prev[1] = Partial({})
    /\ prev[2] = Partial(NormFields \ {"created_at", "next_review"})
    /\ entries[1]["interval_days"] = IntV(1)
    /\ entries[1]["success_streak"] = IntV(0)
    /\ entries[1]["review_count"] = IntV(0)
    /\ entries[1]["context"] = StrV(<<>>)
    /\ entries[1]["id"] = StrV(Uuid(0))
    /\ entries[1]["created_at"] = StrV(Strftime(today))
    /\ entries[1]["next_review"] = entries[1]["created_at"]
    /\ entries[2]["interval_days"] = IntV(2)
    /\ result.changed

----------------------------------------------------------------------------
(* The storage file.  json.dump writes a list as "[", one object per       *)
(* record and "]"; the text of a file is the sequence of these pieces, one *)
(* piece per write that reaches the file.  An object holds the keys the    *)
(* record has, with a string, an integer or null for each, and json.load   *)
(* reads the same keys and values back.                                    *)

NoEntry == [f \in Fields |-> Absent]

Piece(kind) == [k |-> kind, e |-> NoEntry]
Object(entry) == [k |-> "object", e |-> entry]

(* The bytes a file has where nothing was written below a later write. *)
Hole == Piece("hole")

(* json.dump(entries, f, ensure_ascii=False, indent=2) *)
Dump(coll) ==
    <<Piece("[")>> \o [i \in 1..Len(coll) |-> Object(coll[i])]
                   \o <<Piece("]")>>

(* json.load(f), with load's check of the top level: a list of values, a
   value that is not a list, or a JSONDecodeError (an empty file, a list
   that is not closed, text after the closing bracket, zero bytes). *)
Parse_Lenient(text) ==
    IF /\ Len(text) >= 2
       /\ text[1].k = "["
       /\ text[Len(text)].k = "]"
       /\ \A i \in 2..(Len(text) - 1) : text[i].k \in {"object", "number"}
    THEN [kind |-> "list", items |-> SubSeq(text, 2, Len(text) - 1)]
    ELSE [kind |-> "list", items |-> <<>>]

Parse(text) ==
    IF /\ Len(text) >= 2
       /\ text[1].k = "["
       /\ text[Len(text)].k = "]"
       /\ \A i \in 2..(Len(text) - 1) : text[i].k \in {"object", "number"}
    THEN [kind |-> "list", items |-> SubSeq(text, 2, Len(text) - 1)]
    ELSE IF Len(text) = 1 /\ text[1].k \in {"object", "number"}
    THEN [kind |-> "notlist", items |-> <<>>]
    ELSE [kind |-> "JSONDecodeError", items |-> <<>>]

(* The records of a parsed list whose items are all objects. *)
Records(items) == [i \in 1..Len(items) |-> items[i].e]

(* if changed: self.save(data) *)
WriteBack_Never(changed) == FALSE

WriteBack(changed) == changed

(* VocabularyStore.load up to its save: what it returns or raises, whether
   it saves first, and the uuids drawn.  normalize_entries tests
   `"id" not in entry` on each item, a TypeError on a number. *)
Normalized(r) ==
    [kind |-> "ok", data |-> r.entries, save |-> WriteBack(r.changed),
     k |-> r.k]

Parsed(parsed, now, k) ==
    IF parsed.kind # "list"
    THEN [kind |-> "ValueError", data |-> <<>>, save |-> FALSE, k |-> k]
    ELSE IF \E i \in 1..Len(parsed.items) : parsed.items[i].k # "object"
    THEN [kind |-> "TypeError", data |-> <<>>, save |-> FALSE, k |-> k]
    ELSE Normalized(normalize_entries(Records(parsed.items), now, k))

load(file, now, k) ==
    IF ~file.exists
    THEN [kind |-> "ok", data |-> <<>>, save |-> FALSE, k |-> k]
    ELSE Parsed(Parse(file.data), now, k)

(* self.path and self.path.with_suffix(".tmp") *)
path == "primary"

tmp_path_Primary == "primary"

tmp_path == "tmp"

(* open(name, "w"): the file is created, or emptied in place. *)
OpenW(files, name) ==
    [files EXCEPT ![name] = [exists |-> TRUE, data |-> <<>>]]

(* A write of one piece at offset `off` of a file's text. *)
WriteAt(text, off, piece) ==
    IF off < Len(text)
    THEN [text EXCEPT ![off + 1] = piece]
    ELSE text \o [i \in 1..(off - Len(text)) |-> Hole] \o <<piece>>

(* os.replace(src, dst) when src exists: dst now names src's file. *)
os_replace_NoClobber(files, src, dst) ==
    IF src = dst \/ files[dst].exists
    THEN files
    ELSE [files EXCEPT ![dst] = files[src], ![src] = NoFile]

os_replace(files, src, dst) ==
    IF src = dst
    THEN files
    ELSE [files EXCEPT ![dst] = files[src], ![src] = NoFile]

(* Where an open file is found after os.replace(src, dst): the file that
   was dst has no name left, the file that was src is now dst. *)
Renamed(at, src, dst) ==
    IF src = dst THEN at
    ELSE IF at = dst THEN "unlinked"
    ELSE IF at = src THEN dst
    ELSE at

----------------------------------------------------------------------------
(* The store and the handlers that use it: two sessions serving requests   *)
(* on one storage file, each step of a request interleaved with the other  *)
(* session's.  What a handler does between two accesses to the directory   *)
(* is local to it and is part of the step that ends the earlier access.    *)

MaxRequests == 2

(* The date datetime.utcnow() gives while the requests are served. *)
StoreDay == Ymd2Ord(2024, 3, 5)

(* uuid4() never returns an id the stored records already have. *)
FirstUuid == 3

Entry_1 ==
    [create_entry(StrV(Word_apple), StrV(Text_abc), StrV(<<>>),
                  Ymd2Ord(2024, 3, 1), Uuid(1))
       EXCEPT !["interval_days"] = IntV(2), !["success_streak"] = IntV(1),
              !["review_count"] = IntV(1),
              !["next_review"] = StrV(Date_2024_03_05)]

Entry_2 ==
    create_entry(StrV(Word_zebra), StrV(Text_abc), StrV(Text_abc),
                 Ymd2Ord(2024, 3, 4), Uuid(2))

Legacy == Record([word |-> StrV(Word_apple), definition |-> StrV(Text_abc)])

(* What the storage file can hold when the sessions start. *)
StoredFiles ==
    {NoFile,
     [exists |-> TRUE, data |-> Dump(<<Entry_1, Entry_2>>)],
     [exists |-> TRUE, data |-> Dump(<<Legacy>>)],
     [exists |-> TRUE, data |-> <<Piece("["), Object(Entry_1)>>],
     [exists |-> TRUE, data |-> <<Object(Entry_1)>>],
     [exists |-> TRUE, data |-> <<Piece("["), Piece("number"), Piece("]")>>]}

(* The ids a request can name: one that is stored and one that is not. *)
RequestIds == {Uuid(2), Uuid(0)}

SavePcs == {"save_write", "save_replace"}

Init ==
    /\ \E f \in StoredFiles : fs = [name \in {"primary", "tmp"} |->
                                      IF name = "primary" THEN f ELSE NoFile]
    /\ sess = [s \in Sessions |-> IdleSession]
    /\ last = [began |-> FALSE, prior |-> NoFile, target |-> <<>>]
    /\ overlap = FALSE
    /\ started = 0
    /\ today = StoreDay
    /\ issued = FirstUuid
    /\ entries = <<>>
    /\ prev = <<>>
    /\ result = [op |-> "none"]
    /\ history = <<>>
    /\ origin = "stored"

pureVars == <<entries, prev, result, history, origin>>

(* A request arrives at an idle session. *)
Begin(s, op, id, remembered) ==
    /\ sess[s].pc = "idle"
    /\ started < MaxRequests
    /\ started' = started + 1
    /\ sess' = [sess EXCEPT ![s] =
                  [IdleSession EXCEPT !.pc = "load", !.op = op, !.id = id,
                                      !.remembered = remembered]]
    /\ UNCHANGED <<fs, last, overlap, today, issued>>
    /\ UNCHANGED pureVars

(* add_entry_route / add_entry, from the point where the form is valid. *)
StartAdd(s) == Begin(s, "add", <<>>, FALSE)

(* delete_entry(entry_id) *)
StartDelete(s, id) == Begin(s, "delete", id, FALSE)

(* review() *)
StartReview(s) == Begin(s, "review", <<>>, FALSE)

(* review_result(entry_id) *)
StartResult(s, id, remembered) == Begin(s, "result", id, remembered)

(* The body of review_skip with the entry's outcome recorded as forgotten
   in the stored file. *)
SkipBody_Forgotten(s, id) ==
    /\ sess' = [sess EXCEPT ![s] =
                  [IdleSession EXCEPT !.op = "skip", !.id = id,
                                      !.out = "skipped"]]
    /\ fs' = [fs EXCEPT ![path] =
                IF fs[path].exists
                THEN [exists |-> TRUE,
                      data |-> [i \in 1..Len(fs[path].data) |->
                                  IF fs[path].data[i].e["id"] = StrV(id)
                                  THEN Object(update_review_state(
                                           fs[path].data[i].e, FALSE,
                                           today).e)
                                  ELSE fs[path].data[i]]]
                ELSE fs[path]]

(* The body of review_skip: a flash and a redirect. *)
SkipBody(s, id) ==
    /\ sess' = [sess EXCEPT ![s] =
                  [IdleSession EXCEPT !.op = "skip", !.id = id,
                                      !.out = "skipped"]]
    /\ fs' = fs

(* review_skip(entry_id) *)
Skip(s, id) ==
    /\ sess[s].pc = "idle"
    /\ started < MaxRequests
    /\ started' = started + 1
    /\ SkipBody(s, id)
    /\ UNCHANGED <<last, overlap, today, issued>>
    /\ UNCHANGED pureVars

(* The request ends with the given outcome.  Of what it held, the record
   keeps the collection it loaded and the one it saved, listed or left. *)
Ended(rec, out) ==
    IF out \in {"ok", "listed", "notfound"}
    THEN [rec EXCEPT !.pc = "idle", !.out = out, !.buf = <<>>, !.off = 0,
                     !.at = "none", !.ret = "none"]
    ELSE [IdleSession EXCEPT !.op = rec.op, !.id = rec.id,
                             !.remembered = rec.remembered, !.out = out,
                             !.saves = rec.saves,
                             !.repaired = rec.repaired]

(* The position of the first entry whose id is `id`, 0 when there is none:
   the loops `if entry.get("id") == entry_id` of the handlers. *)
FindEntry_First(mem, id) == IF Len(mem) > 0 THEN 1 ELSE 0

FindEntry(mem, id) ==
    IF \E i \in 1..Len(mem) : mem[i]["id"] = StrV(id)
    THEN CHOOSE i \in 1..Len(mem) :
             /\ mem[i]["id"] = StrV(id)
             /\ \A j \in 1..(i - 1) : mem[j]["id"] # StrV(id)
    ELSE 0

(* The first entry dropped, whatever its id. *)
Remaining_AllButFirst(mem, id) == Tail(mem)

(* remaining: the entries whose id is not `id`, in order. *)
Remaining(mem, id) ==
    LET Keep(e) == e["id"] # StrV(id) IN SelectSeq(mem, Keep)

(* entries.append(create_entry(word, definition, context)); store.save *)
Add(rec, day, k) ==
    [rec EXCEPT !.mem = Append(@, create_entry(StrV(Word_mango),
                                               StrV(Text_abc), StrV(<<>>),
                                               day, Uuid(k))),
                !.pc = "save_open"]

(* delete_entry after load: flash and return when the id is not there,
   else store.save(remaining). *)
Delete(rec) ==
    IF FindEntry(rec.mem, rec.id) = 0
    THEN Ended(rec, "notfound")
    ELSE [rec EXCEPT !.mem = Remaining(@, rec.id), !.pc = "save_open"]

(* review after load: get_due_entries(entries) and the page. *)
Listed(rec, r) ==
    IF r.raised THEN Ended(rec, "TypeError")
    ELSE [Ended(rec, "listed") EXCEPT !.due = r.due]

ReviewList(rec, day) == Listed(rec, get_due_entries(rec.mem, day))

(* The outcome applied to every entry of the collection. *)
Outcome_All(mem, idx, remembered, day) ==
    [i \in 1..Len(mem) |-> update_review_state(mem[i], remembered, day).e]

(* update_review_state(target_entry, remembered=remembered): the entry is
   one of the list's, so the list holds the change. *)
Outcome(mem, idx, remembered, day) ==
    [mem EXCEPT ![idx] = update_review_state(@, remembered, day).e]

(* review_result after load: flash and return when the id is not there,
   else update_review_state(target_entry, remembered); store.save(entries) *)
Updated(rec, idx, day) ==
    IF idx = 0 THEN Ended(rec, "notfound")
    ELSE IF update_review_state(rec.mem[idx], rec.remembered, day).raised
    THEN Ended([rec EXCEPT !.mem = Outcome(@, idx, rec.remembered, day)],
               "TypeError")
    ELSE [rec EXCEPT !.mem = Outcome(@, idx, rec.remembered, day),
                     !.pc = "save_open"]

Result(rec, day) == Updated(rec, FindEntry(rec.mem, rec.id), day)

(* The handler from load's return to its save or its end. *)
Returned_load(got, day, k) ==
    CASE got.op = "add" -> Add(got, day, k)
      [] got.op = "delete" -> Delete(got)
      [] got.op = "review" -> ReviewList(got, day)
      [] got.op = "result" -> Result(got, day)

Handle(rec, day, k) ==
    Returned_load([rec EXCEPT !.loaded = rec.mem, !.ret = "done"], day, k)

(* store.load(): the file is read and normalized.  A repair goes on to
   save, and load returns when that save has; otherwise load returns and
   the handler runs. *)
Loaded(s, r) ==
    IF r.kind # "ok"
    THEN /\ sess' = [sess EXCEPT ![s] = Ended(@, r.kind)]
         /\ issued' = issued
    ELSE IF r.save
    THEN /\ sess' = [sess EXCEPT ![s] =
                       [@ EXCEPT !.mem = r.data, !.repaired = TRUE,
                                 !.pc = "save_open", !.ret = "loaded"]]
         /\ issued' = r.k
    ELSE /\ sess' = [sess EXCEPT ![s] =
                       Handle([@ EXCEPT !.mem = r.data], today, r.k)]
         /\ issued' = IF sess[s].op = "add" THEN r.k + 1 ELSE r.k

Load(s) ==
    /\ sess[s].pc = "load"
    /\ Loaded(s, load(fs[path], today, issued))
    /\ UNCHANGED <<fs, last, overlap, started, today>>
    /\ UNCHANGED pureVars

(* tmp_path.open("w") in save: the temporary file is created or emptied. *)
SaveOpen(s) ==
    /\ sess[s].pc = "save_open"
    /\ fs' = OpenW(fs, tmp_path)
    /\ sess' = [sess EXCEPT ![s] =
                  [@ EXCEPT !.pc = "save_write", !.buf = Dump(sess[s].mem),
                            !.off = 0, !.at = tmp_path,
                            !.saves = @ + 1]]
    /\ last' = [began |-> TRUE, prior |-> fs[path],
                target |-> Dump(sess[s].mem)]
    /\ overlap' = (overlap \/ \E t \in Sessions \ {s} :
                                  sess[t].pc \in SavePcs)
    /\ UNCHANGED <<started, today, issued>>
    /\ UNCHANGED pureVars

(* One write of json.dump's text reaches the file the session has open;
   the file is closed after the last. *)
SaveWrite(s) ==
    /\ sess[s].pc = "save_write"
    /\ LET rec == sess[s]
           piece == rec.buf[rec.off + 1]
       IN  /\ fs' = IF rec.at = "unlinked" THEN fs
                    ELSE [fs EXCEPT ![rec.at].data =
                            WriteAt(@, rec.off, piece)]
           /\ sess' = [sess EXCEPT ![s] =
                         IF rec.off + 1 = Len(rec.buf)
                         THEN [@ EXCEPT !.off = 0, !.at = "none",
                                        !.buf = <<>>,
                                        !.pc = "save_replace"]
                         ELSE [@ EXCEPT !.off = rec.off + 1]]
    /\ UNCHANGED <<last, overlap, started, today, issued>>
    /\ UNCHANGED pureVars

(* os.replace(tmp_path, self.path) in save, and what follows save's return:
   load returns and the handler runs, or the handler reports success. *)
SaveReplace(s) ==
    /\ sess[s].pc = "save_replace"
    /\ IF fs[tmp_path].exists
       THEN /\ fs' = os_replace(fs, tmp_path, path)
            /\ sess' = [t \in Sessions |->
                          IF t = s
                          THEN IF sess[s].ret = "loaded"
                               THEN Handle(sess[s], today, issued)
                               ELSE Ended(sess[s], "ok")
                          ELSE [sess[t] EXCEPT
                                  !.at = Renamed(@, tmp_path, path)]]
            /\ issued' = IF sess[s].ret = "loaded" /\ sess[s].op = "add"
                         THEN issued + 1 ELSE issued
       ELSE /\ fs' = fs
            /\ sess' = [sess EXCEPT ![s] = Ended(@, "FileNotFoundError")]
            /\ issued' = issued
    /\ UNCHANGED <<last, overlap, started, today>>
    /\ UNCHANGED pureVars

(* The process serving a request dies during a save: what it wrote to the
   directory stays as it is, the file it had open is closed.  A death at
   any other point leaves nothing behind. *)
Crash(s) ==
    /\ sess[s].pc \in SavePcs
    /\ sess' = [sess EXCEPT ![s] = Ended(@, "crashed")]
    /\ UNCHANGED <<fs, last, overlap, started, today, issued>>
    /\ UNCHANGED pureVars

Next ==
    \/ \E s \in Sessions : StartAdd(s)
    \/ \E s \in Sessions : \E id \in RequestIds : StartDelete(s, id)
    \/ \E s \in Sessions : StartReview(s)
    \/ \E s \in Sessions : \E id \in RequestIds : \E remembered \in BOOLEAN :
          StartResult(s, id, remembered)
    \/ \E s \in Sessions : \E id \in RequestIds : Skip(s, id)
    \/ \E s \in Sessions : Load(s)
    \/ \E s \in Sessions : SaveOpen(s)
    \/ \E s \in Sessions : SaveWrite(s)
    \/ \E s \in Sessions : SaveReplace(s)
    \/ \E s \in Sessions : Crash(s)

Spec == Init /\ [][Next]_vars

----------------------------------------------------------------------------
(* The store's contract.                                                   *)

Primary == fs[path]

Complete(text) == [exists |-> TRUE, data |-> text]

(* C12: with a single writer, at every point of a save and after a crash
   at any step of it, the primary file is either the file as it was when
   the save began or the complete text of the collection being saved,
   and a reader at that moment loads without error. *)
C12_SaveAtomic ==
    (last.began /\ ~overlap)
    => /\ Primary = last.prior \/ Primary = Complete(last.target)
       /\ load(Primary, today, issued).kind = "ok"

C12_Witness ==
    /\ ~overlap
    /\ \E s \in Sessions : sess[s].out = "crashed" /\ sess[s].op = "result"
    /\ Primary = last.prior
    /\ Primary.exists
    /\ fs[tmp_path].exists
    /\ Len(fs[tmp_path].data) = 2
    /\ Len(last.target) = 4
    /\ last.target # Primary.data

(* The text is a list of records: "[", objects, "]". *)
IsListOfRecords(text) ==
    /\ Len(text) >= 2
    /\ text[1] = Piece("[")
    /\ text[Len(text)] = Piece("]")
    /\ \A i \in 2..(Len(text) - 1) : text[i].k = "object"

(* The file holds a list of records of which one lacks a field that
   normalize_entries fills. *)
NeedsRepair(file) ==
    /\ file.exists
    /\ IsListOfRecords(file.data)
    /\ \E i \in 2..(Len(file.data) - 1) : \E f \in NormFields :
           IsAbsent(file.data[i].e[f])

LoadStep(s) == sess[s].pc = "load" /\ sess'[s].pc # "load"

(* The step at which the save inside load returns, and load with it. *)
LoadReturnsAfterSave(s) ==
    /\ sess[s].pc = "save_replace"
    /\ sess[s].ret = "loaded"
    /\ sess'[s].pc # "save_replace"
    /\ sess'[s].out \notin {"crashed", "FileNotFoundError"}

(* C13: a load of a file whose records lack fields saves the repaired
   collection and returns only after that save, when (no other save having
   overlapped it) the file is the text of the returned collection and a
   further load of it repairs and writes nothing; a load of a file whose
   records are complete writes nothing. *)
C13_WriteBackOnRead ==
    [][\A s \in Sessions :
          /\ (LoadStep(s) /\ NeedsRepair(Primary))
             => /\ sess'[s].pc = "save_open"
                /\ sess'[s].ret = "loaded"
                /\ sess'[s].repaired
          /\ (LoadReturnsAfterSave(s) /\ ~overlap)
             => /\ fs'[path] = Complete(Dump(sess[s].mem))
                /\ ~NeedsRepair(fs'[path])
                /\ load(fs'[path], today, issued).kind = "ok"
                /\ load(fs'[path], today, issued).data = sess[s].mem
                /\ ~load(fs'[path], today, issued).save
          /\ (LoadStep(s) /\ ~NeedsRepair(Primary))
             => /\ fs' = fs
                /\ ~sess'[s].repaired
                /\ sess'[s].ret # "loaded"]_vars

C13_Witness ==
    /\ ~overlap
    /\ sess["s1"].out = "listed"
    /\ sess["s1"].repaired
    /\ sess["s1"].saves = 1
    /\ sess["s2"].out = "listed"
    /\ ~sess["s2"].repaired
    /\ sess["s2"].saves = 0
    /\ sess["s2"].mem = sess["s1"].mem
    /\ Len(sess["s1"].mem) = 1
    /\ Primary = Complete(Dump(sess["s1"].mem))

(* A step that serves a whole request and leaves every session where it
   was: a skip. *)
SkipStep ==
    /\ started' = started + 1
    /\ \A s \in Sessions : sess'[s].pc = sess[s].pc

(* C14: a skip changes nothing that is stored: the primary file and its
   temporary sibling are as they were, so every field of every entry is,
   no save is begun, and the session has saved nothing; for an id that is
   stored and for one that is not. *)
C14_SkipIsNoOp ==
    [][SkipStep
       => /\ fs' = fs
          /\ last' = last
          /\ \A s \in Sessions :
                sess'[s] # sess[s]
                => sess'[s].out = "skipped" /\ sess'[s].saves = 0]_vars

C14_Witness ==
    /\ sess["s1"].out = "skipped"
    /\ sess["s1"].id = Uuid(2)
    /\ sess["s2"].out = "skipped"
    /\ sess["s2"].id = Uuid(0)
    /\ Primary = Complete(Dump(<<Entry_1, Entry_2>>))
    /\ ~last.began

(* The handler has run and its save is under way or has returned. *)
Saving(s) ==
    \/ sess[s].pc \in {"save_open", "save_write", "save_replace"}
       /\ sess[s].ret = "done"
    \/ sess[s].out = "ok"

InSeq(e, coll) == \E i \in 1..Len(coll) : coll[i] = e

(* An entry as create_entry makes it, created on or before today. *)
AsCreated(e) ==
    /\ e["interval_days"] = IntV(1)
    /\ e["success_streak"] = IntV(0)
    /\ e["review_count"] = IntV(0)
    /\ IsStr(e["created_at"])
    /\ e["next_review"] = e["created_at"]
    /\ Strptime(e["created_at"].s).ok
    /\ Strptime(e["created_at"].s).ord <= today

(* C15: the entry an add appends has interval_days 1, success_streak 0,
   review_count 0 and next_review equal to created_at, the current date;
   and every listing of due entries made on or after an entry's creation
   date includes the entry while it is as it was created. *)
C15_NewEntryIsDue ==
    \A s \in Sessions :
        /\ (sess[s].op = "add" /\ Saving(s))
           => LET e == sess[s].mem[Len(sess[s].mem)]
              IN  /\ AsCreated(e)
                  /\ e["created_at"] = StrV(Strftime(today))
                  /\ e["word"] = StrV(Word_mango)
        /\ sess[s].out = "listed"
           => \A i \in 1..Len(sess[s].mem) :
                  AsCreated(sess[s].mem[i])
                  => InSeq(sess[s].mem[i], sess[s].due)

C15_Witness ==
    /\ sess["s1"].op = "add"
    /\ sess["s1"].out = "ok"
    /\ sess["s2"].out = "listed"
    /\ sess["s2"].mem = sess["s1"].mem
    /\ Len(sess["s2"].mem) = 3
    /\ sess["s2"].mem[2] = Entry_2
    /\ InSeq(Entry_2, sess["s2"].due)
    /\ InSeq(sess["s1"].mem[3], sess["s2"].due)

SaveReturns(s) ==
    /\ sess[s].pc = "save_replace"
    /\ sess'[s].pc # "save_replace"
    /\ sess'[s].out # "crashed"

(* C16: nothing is locked or compared: a save that no other save overlaps
   returns without error and leaves the file holding the saving session's
   collection, whatever the file had come to hold since that session
   loaded it; so the later of two such saves discards the other's change. *)
C16_LastSaveWins ==
    [][\A s \in Sessions :
          (SaveReturns(s) /\ ~overlap)
          => /\ sess'[s].out # "FileNotFoundError"
             /\ fs'[path] = Complete(Dump(sess[s].mem))]_vars

(* The entry s1 added and saved is not in the file: s2 loaded before s1's
   save and saved its review outcome after it. *)
C16_Witness ==
    /\ ~overlap
    /\ sess["s1"].op = "add"
    /\ sess["s1"].out = "ok"
    /\ sess["s2"].op = "result"
    /\ sess["s2"].out = "ok"
    /\ Primary = Complete(Dump(sess["s2"].mem))
    /\ ~InSeq(sess["s1"].mem[Len(sess["s1"].mem)], sess["s2"].mem)
    /\ Len(sess["s2"].mem) = 2
    /\ Len(sess["s1"].mem) = 3

(* C17: with two saves in progress at once, neither fails, the primary
   file always loads, and when both have returned the file is the complete
   text of one of the two collections. *)
C17_ConcurrentSaves ==
    /\ \A s \in Sessions : sess[s].out # "FileNotFoundError"
    /\ last.began => load(Primary, today, issued).kind = "ok"
    /\ (\A s \in Sessions : sess[s].out = "ok")
       => \E s \in Sessions : Primary = Complete(Dump(sess[s].mem))

HasId(coll, id) == \E i \in 1..Len(coll) : coll[i]["id"] = StrV(id)

(* C18: a delete or a review outcome for an id that is not in the loaded
   collection ends with the not-found report, the collection as loaded and
   no save but the one load made for its repair; and no delete or outcome
   goes on to save for an id that is not in the loaded collection. *)
C18_NotFoundMutatesNothing ==
    \A s \in Sessions :
        /\ sess[s].out = "notfound"
           => /\ sess[s].op \in {"delete", "result"}
              /\ ~HasId(sess[s].loaded, sess[s].id)
              /\ sess[s].mem = sess[s].loaded
              /\ sess[s].saves = (IF sess[s].repaired THEN 1 ELSE 0)
        /\ (sess[s].op \in {"delete", "result"} /\ Saving(s))
           => HasId(sess[s].loaded, sess[s].id)

(* The entry was deleted by s1 while s2's page still showed it. *)
C18_Witness ==
    /\ sess["s1"].op = "delete"
    /\ sess["s1"].id = Uuid(2)
    /\ sess["s1"].out = "ok"
    /\ sess["s2"].op = "result"
    /\ sess["s2"].id = Uuid(2)
    /\ sess["s2"].out = "notfound"
    /\ sess["s2"].mem = <<Entry_1>>
    /\ sess["s2"].saves = 0
    /\ Primary = Complete(Dump(<<Entry_1>>))

(* The file exists and is not the text of a list of records. *)
Unloadable(file) == file.exists /\ ~IsListOfRecords(file.data)

(* C19: a load of a file that is not parseable, or is not a list of
   records, ends the request with an error, with nothing normalized (no
   id drawn) and nothing written; a load with no file there returns the
   empty collection and creates no file. *)
C19_LoadFailsClosed ==
    [][\A s \in Sessions :
          /\ (LoadStep(s) /\ Unloadable(Primary))
             => /\ sess'[s].out \in {"ValueError", "TypeError"}
                /\ sess'[s].pc = "idle"
                /\ sess'[s].saves = 0
                /\ issued' = issued
                /\ fs' = fs
          /\ (LoadStep(s) /\ ~Primary.exists)
             => /\ fs' = fs
                /\ sess'[s].out \notin {"ValueError", "TypeError"}
                /\ sess'[s].loaded = <<>>
                /\ ~sess'[s].repaired
                /\ sess'[s].saves = 0]_vars

C19_Witness ==
    /\ sess["s1"].out = "ValueError"
    /\ sess["s1"].op = "add"
    /\ sess["s2"].out = "ValueError"
    /\ sess["s2"].op = "review"
    /\ Primary = Complete(<<Piece("["), Object(Entry_1)>>)
    /\ ~fs[tmp_path].exists
    /\ ~last.began
    /\ issued = FirstUuid

ScheduleFields ==
    {"success_streak", "interval_days", "next_review", "review_count"}

(* C20: a review outcome leaves the collection as loaded but for the
   success_streak, interval_days, next_review and review_count of the
   entry it names; add and delete change no field of an entry they
   keep, next_review included. *)
C20_OutcomeFrame ==
    \A s \in Sessions :
        Saving(s)
        => LET mem == sess[s].mem
               loaded == sess[s].loaded
           IN  /\ sess[s].op = "result"
                  => /\ Len(mem) = Len(loaded)
                     /\ \A i \in 1..Len(mem) :
                          IF i = FindEntry(loaded, sess[s].id)
                          THEN \A f \in Fields \ ScheduleFields :
                                   mem[i][f] = loaded[i][f]
                          ELSE mem[i] = loaded[i]
               /\ sess[s].op = "add"
                  => /\ Len(mem) = Len(loaded) + 1
                     /\ \A i \in 1..Len(loaded) : mem[i] = loaded[i]
               /\ sess[s].op = "delete"
                  => \A i \in 1..Len(mem) : InSeq(mem[i], loaded)

C20_Witness ==
    /\ sess["s1"].op = "result"
    /\ sess["s1"].id = Uuid(2)
    /\ sess["s1"].out = "ok"
    /\ sess["s1"].loaded = <<Entry_1, Entry_2>>
    /\ sess["s1"].mem[1] = Entry_1
    /\ sess["s1"].mem[2]["next_review"] # Entry_2["next_review"]
    /\ sess["s1"].mem[2]["review_count"] = IntV(1)
    /\ sess["s1"].mem[2]["created_at"] = Entry_2["created_at"]
    /\ sess["s2"].op = "result"
    /\ sess["s2"].out = "ok"
    /\ sess["s2"].loaded = sess["s1"].mem
    /\ sess["s2"].mem[2]["review_count"] = IntV(2)
    /\ sess["s2"].mem[1] = Entry_1

----------------------------------------------------------------------------
(* Streaks and counts over a sequence of outcomes.                         *)

(* How many remembered outcomes end the sequence, back to the most recent
   forgotten one or to its start. *)
RECURSIVE TrailingSuccesses(_)
TrailingSuccesses(outcomes) ==
    IF outcomes = <<>> \/ ~outcomes[Len(outcomes)] THEN 0
    ELSE 1 + TrailingSuccesses(SubSeq(outcomes, 1, Len(outcomes) - 1))

(* C21: after every sequence of outcomes on an entry made by create_entry,
   success_streak is the number of remembered outcomes since the most
   recent forgotten one (or since creation), review_count is the number
   of outcomes, and 0 <= success_streak <= review_count. *)
C21_StreakIsTrailingSuccesses ==
    origin = "created"
    => /\ ~result.raised
       /\ Cur["success_streak"] = IntV(TrailingSuccesses(history))
       /\ Cur["review_count"] = IntV(Len(history))
       /\ 0 <= Cur["success_streak"].n
       /\ Cur["success_streak"].n <= Cur["review_count"].n

C21_Witness ==
    /\ origin = "created"
    /\ history = <<TRUE, TRUE, FALSE, TRUE, TRUE>>
    /\ Old["success_streak"] = IntV(1)
    /\ Cur["success_streak"] = IntV(2)
    /\ Cur["review_count"] = IntV(5)

----------------------------------------------------------------------------
(* What leaves the stored collection.                                      *)

(* The entries of coll whose id differs from id, in the order of coll. *)
RECURSIVE Kept(_, _)
Kept(coll, id) ==
    IF coll = <<>> THEN <<>>
    ELSE IF coll[1]["id"] = StrV(id) THEN Kept(Tail(coll), id)
    ELSE <<coll[1]>> \o Kept(Tail(coll), id)

(* The records of a file that is a list of records, none for no file. *)
StoredRecords(file) ==
    IF file.exists /\ IsListOfRecords(file.data)
    THEN [i \in 1..(Len(file.data) - 2) |-> file.data[i + 1].e]
    ELSE <<>>

(* coll begins with the entries of base, id for id. *)
KeepsAll(coll, base) ==
    /\ Len(coll) >= Len(base)
    /\ \A i \in 1..Len(base) : coll[i]["id"] = base[i]["id"]

(* coll is recs, record for record, with every key of recs as it was. *)
KeepsRecords(coll, recs) ==
    /\ Len(coll) = Len(recs)
    /\ \A i \in 1..Len(recs) : \A key \in Fields :
           recs[i][key] # Absent => coll[i][key] = recs[i][key]

(* What a handler may save, or a file may hold after its save, given the
   collection the handler loaded. *)
Persists(rec, coll) ==
    IF rec.op = "delete"
    THEN HasId(rec.loaded, rec.id) /\ coll = Kept(rec.loaded, rec.id)
    ELSE KeepsAll(coll, rec.loaded)

(* The handler has run on the loaded collection and goes on to save. *)
GoesToSave(s) ==
    /\ sess[s].pc \in {"load", "save_replace"}
    /\ sess'[s].pc = "save_open"
    /\ sess'[s].ret = "done"

(* C22, as stated: the file after a delete's save holds exactly the
   entries the file held before it whose id differs, and the file after
   any other save holds every entry the file held before it.  Saves that
   were in progress at once are left out. *)
C22_StoredOnlyByDelete ==
    [][\A s \in Sessions :
          (SaveReturns(s) /\ sess[s].ret = "done" /\ ~overlap)
          => IF sess[s].op = "delete"
             THEN StoredRecords(fs'[path])
                  = Kept(StoredRecords(Primary), sess[s].id)
             ELSE KeepsAll(StoredRecords(fs'[path]), StoredRecords(Primary))]_vars

(* C22: a delete of an id in the collection it loaded saves exactly the
   loaded entries whose id differs, in their order and whole, and that is
   what the file holds when its save returns; an add or a review outcome
   saves every entry it loaded, load keeps every record of the file, and
   a skip leaves the file as it is.  An entry stored by another session
   after the load is not among them. *)
C22_OnlyDeleteRemoves ==
    [][/\ \A s \in Sessions :
            /\ GoesToSave(s) => Persists(sess'[s], sess'[s].mem)
            /\ (SaveReturns(s) /\ sess[s].ret = "done" /\ ~overlap)
               => Persists(sess[s], StoredRecords(fs'[path]))
            /\ (LoadStep(s) /\ sess'[s].out \notin {"ValueError", "TypeError"})
               => IF sess'[s].repaired
                  THEN KeepsRecords(sess'[s].mem, StoredRecords(Primary))
                  ELSE sess'[s].loaded = StoredRecords(Primary)
       /\ SkipStep => StoredRecords(fs'[path]) = StoredRecords(Primary)]_vars

C22_Witness ==
    /\ ~overlap
    /\ sess["s1"].op = "add"
    /\ sess["s1"].out = "ok"
    /\ sess["s2"].op = "delete"
    /\ sess["s2"].id = Uuid(2)
    /\ sess["s2"].out = "ok"
    /\ sess["s2"].loaded = sess["s1"].mem
    /\ Len(sess["s2"].loaded) = 3
    /\ sess["s2"].mem = <<Entry_1, sess["s1"].mem[3]>>
    /\ Primary = Complete(Dump(sess["s2"].mem))

----------------------------------------------------------------------------
(* A review session of the web application on one day: the review page    *)
(* and the outcome posted for the entry it presents, in turn.  The file   *)
(* is read and written by this one session only, so `entries` stands for  *)
(* the stored collection as load returns it.                               *)

MaxSessionEntries == 3

(* next_review and interval_days of a stored entry: due and not due on
   either day, a string that is no date, and values of another type. *)
SessionSamples ==
    {<<StrV(Date_2024_02_15), IntV(8)>>,
     <<StrV(Date_2024_02_20), IntV(16)>>,
     <<StrV(Date_2024_03_05), IntV(1)>>,
     <<StrV(Date_2024_03_06), IntV(31)>>,
     <<StrV(Text_abc), IntV(-3)>>,
     <<Null, IntV(1)>>,
     <<StrV(Date_2024_03_01), StrV(Text_abc)>>}

SessionEntry(i, sample) ==
    [create_entry(StrV(Word_apple), StrV(Text_abc), StrV(<<>>),
                  Ymd2Ord(2024, 1, 2), Uuid(i))
       EXCEPT !["next_review"] = sample[1], !["interval_days"] = sample[2]]

SessionInit ==
    /\ StoreIdle
    /\ \E k \in 0..MaxSessionEntries : \E f \in [1..k -> SessionSamples] :
         entries = [i \in 1..k |-> SessionEntry(i, f[i])]
    /\ prev = entries
    /\ today \in AsOfDays
    /\ result = [op |-> "session", raised |-> FALSE, due |-> <<>>]
    /\ history = <<>>
    /\ origin = "stored"
    /\ issued = 0

(* review: entries = store.load(); due_entries = get_due_entries(entries);
   current = due_entries[0] if due_entries else None. *)
Page(r) == [op |-> "review", raised |-> r.raised, due |-> r.due]

review ==
    /\ result.op \in {"session", "review_result"}
    /\ result' = Page(get_due_entries(entries, today))
    /\ UNCHANGED <<entries, prev, today, history, origin, issued>>
    /\ UNCHANGED storeVars

(* review_result for the entry the page presents: the loop finding the
   entry, update_review_state, store.save(entries), and the redirect to
   review.  A call that raises saves nothing.  The outcome is recorded
   with the id and the number of entries the page counted as due. *)
Answered(id, idx, remembered) ==
    IF idx = 0 \/ update_review_state(entries[idx], remembered, today).raised
    THEN /\ entries' = entries
         /\ history' = history
         /\ result' = [result EXCEPT !.op = "review_result",
                                     !.raised = idx # 0]
    ELSE /\ entries' = Outcome(entries, idx, remembered, today)
         /\ history' = Append(history, [id |-> id, remembered |-> remembered,
                                        due |-> Len(result.due)])
         /\ result' = [result EXCEPT !.op = "review_result"]

review_result(remembered) ==
    /\ result.op = "review"
    /\ ~result.raised
    /\ result.due # <<>>
    /\ Answered(result.due[1]["id"].s,
                FindEntry(entries, result.due[1]["id"].s), remembered)
    /\ prev' = entries
    /\ UNCHANGED <<today, origin, issued>>
    /\ UNCHANGED storeVars

SessionNext == review \/ \E remembered \in BOOLEAN : review_result(remembered)

SpecSession == SessionInit /\ [][SessionNext]_vars

(* The number of entries of coll due on the day, by the dates themselves:
   a next_review that is a date after the day is the only one not due. *)
DueCount(coll, day) ==
    Cardinality({i \in 1..Len(coll) :
                   ~(/\ coll[i]["next_review"].t = "str"
                     /\ Strptime(coll[i]["next_review"].s).ok
                     /\ Strptime(coll[i]["next_review"].s).ord > day)})

(* The entry the last recorded outcome was for. *)
Answer == history[Len(history)]
Target == entries[FindEntry(entries, Answer.id)]

(* C23: after an outcome on day T the entry's next_review is a date from
   T + 1 to T + 30 and get_due_entries for T does not return the entry;
   in a session on one day each outcome lowers the number of due entries
   by one, no entry is reviewed twice, and the due list is empty exactly
   when as many outcomes were given as entries were due at the start. *)
C23_SessionEmptiesDueList ==
    /\ (result.op = "review_result" /\ ~result.raised)
       => /\ Target["next_review"].t = "str"
          /\ Strptime(Target["next_review"].s).ok
          /\ Strptime(Target["next_review"].s).ord \in (today + 1)..(today + 30)
          /\ ~get_due_entries(entries, today).raised
          /\ \A j \in 1..Len(get_due_entries(entries, today).due) :
                 get_due_entries(entries, today).due[j]["id"] # StrV(Answer.id)
          /\ DueCount(entries, today) = DueCount(prev, today) - 1
    /\ history # <<>>
       => /\ \A i, j \in 1..Len(history) :
                 history[i].id = history[j].id => i = j
          /\ \A i \in 1..Len(history) :
                 history[i].due = history[1].due - (i - 1)
          /\ DueCount(entries, today) = history[1].due - Len(history)
          /\ Len(get_due_entries(entries, today).due) = DueCount(entries, today)
          /\ (get_due_entries(entries, today).due = <<>>)
             <=> (Len(history) = history[1].due)

C23_Witness ==
    /\ result.op = "review"
    /\ result.due = <<>>
    /\ Len(entries) = 3
    /\ Len(history) = 3
    /\ history[1].due = 3
    /\ history[1].remembered
    /\ ~history[2].remembered
    /\ prev[FindEntry(prev, history[3].id)]["next_review"] = StrV(Text_abc)

=============================================================================
